---- MODULE Spec2Model ----
(***************************************************************************)
(* A model of saints_downloader.py: the link extractor, the audio-metadata *)
(* resolver, the file downloader, the volume/season orchestrator and main. *)
(* Text is kept as TLA+ strings and scanned character by character, the    *)
(* way the regular expressions and str methods of the source scan it.      *)
(***************************************************************************)
EXTENDS Naturals, Sequences, FiniteSets, TLC

VARIABLES
    args,      \* main: the parsed flags [books, podcasts] after the default rule
    site,      \* the remote site the run talks to (listing pages, detail pages)
    run,       \* number of the current run of the program (1-based)
    pc,        \* position of the run: "main", "resolve", "print", "download", "done", "aborted"
    work,      \* main: the (name, slug, kind) descriptors still to process, head first
    cur,       \* descriptor being processed by process_volume / process_podcast_season
    links,     \* chapter_links / episode_links still to resolve
    details,   \* chapter_details / episode_details built so far
    idx,       \* index of the next element of details to print or to download
    fs,        \* the files on disk: path -> content
    dirs,      \* the directories created on disk
    trace,     \* what the current run did so far, in order (fetches, prints, writes)
    hist,      \* the download_file calls of all runs, in order
    inp,       \* input of the pure function under study
    outp       \* its result

vars == <<args, site, run, pc, work, cur, links, details, idx, fs, dirs, trace, hist, inp, outp>>

(***************************************************************************)
(* Program constants                                                       *)
(***************************************************************************)
\* argparse default of -dest
Dest == "./saints_audio"

(***************************************************************************)
(* Bounds of the model                                                     *)
(***************************************************************************)
\* links on a listing page
MaxLinks == 2
\* runs of the program on the same destination directory
MaxRuns == 2
\* fragments of a listing-page body
MaxFrags == 3
\* keys of a content store
MaxStore == 2
\* entries of an audio-variant list
MaxAudio == 2
\* parts of a title
MaxParts == 3

(***************************************************************************)
(* Python values                                                           *)
(***************************************************************************)
\* Python's None where a str may also stand (audio_url, title, a dict miss).
None == "<None>"

\* `not x` for a value that is None or a str.
Falsy(x) == x = None \/ x = ""

(***************************************************************************)
(* str methods                                                             *)
(***************************************************************************)
At(s, i) == SubSeq(s, i, i)

\* s[i:] starts with p (i is 1-based)
HasAt(s, i, p) == i + Len(p) - 1 <= Len(s) /\ SubSeq(s, i, i + Len(p) - 1) = p

EndsWith(s, p) == Len(p) <= Len(s) /\ SubSeq(s, Len(s) - Len(p) + 1, Len(s)) = p

\* the least k in lo..hi with P(k), 0 when there is none: a left-to-right scan
First(lo, hi, P(_)) ==
    IF \E k \in lo..hi : P(k)
    THEN CHOOSE k \in lo..hi : P(k) /\ \A j \in lo..(k - 1) : ~P(j)
    ELSE 0

\* s.find(p, i - 1) + 1: the first occurrence of p in s at or after i, 0 when none
Find(s, p, i) ==
    LET P(k) == HasAt(s, k, p) IN First(i, Len(s), P)

\* s.rfind(c) + 1: the last occurrence of the one-character string c in s, 0 when none
RFind(s, c) ==
    IF \E k \in 1..Len(s) : At(s, k) = c
    THEN CHOOSE k \in 1..Len(s) : At(s, k) = c /\ \A j \in (k + 1)..Len(s) : At(s, j) # c
    ELSE 0

\* s.replace(old, new): every non-overlapping occurrence, left to right
RECURSIVE ReplaceFrom(_, _, _, _)
ReplaceFrom(s, old, new, i) ==
    LET k == Find(s, old, i)
    IN  IF k = 0 THEN SubSeq(s, i, Len(s))
        ELSE SubSeq(s, i, k - 1) \o new \o ReplaceFrom(s, old, new, k + Len(old))

Replace(s, old, new) == ReplaceFrom(s, old, new, 1)

\* s.split(sep, 1)[0] and s.split(sep)[0]: the text before the first sep
BeforeFirst(s, sep) ==
    LET k == Find(s, sep, 1) IN IF k = 0 THEN s ELSE SubSeq(s, 1, k - 1)

\* s.split('/')[-1]: the text after the last '/'
AfterLast(s, c) == SubSeq(s, RFind(s, c) + 1, Len(s))

(***************************************************************************)
(* Character classes of the regular expressions                            *)
(***************************************************************************)
\* \d and \s of a str pattern, as far as a string of this module can hold them
\* (characters up to U+00FF). \d: the only decimal digits in that range are
\* 0-9. \s: space, tab, line feed, carriage return, form feed, and then
\* vertical tab (U+000B), the separators U+001C to U+001F, next line (U+0085)
\* and no-break space (U+00A0). The spaces and digits beyond U+00FF that the
\* two classes also match cannot be written here.
Digits == {"0", "1", "2", "3", "4", "5", "6", "7", "8", "9"}
Spaces == {" ", "\t", "\n", "\r", "\f", "", "", "", "", "", "", " "}

IsDigit(s, i) == i <= Len(s) /\ At(s, i) \in Digits
IsSpace(s, i) == i <= Len(s) /\ At(s, i) \in Spaces

\* end (exclusive) of the longest run of \d, of \s, of [^" ] starting at i
DigitsEnd(s, i) ==
    LET P(k) == ~IsDigit(s, k) IN First(i, Len(s) + 1, P)

SpacesEnd(s, i) ==
    LET P(k) == ~IsSpace(s, k) IN First(i, Len(s) + 1, P)

LinkEnd(s, i) ==
    LET P(k) == k > Len(s) \/ At(s, k) = "\"" \/ At(s, k) = " " IN First(i, Len(s) + 1, P)

(***************************************************************************)
(* 4.2 Link extractor                                                      *)
(***************************************************************************)
\* r'href="(/study/history/SLUG/[^\" ]*)"' matches at position i of html
HrefAt(html, slug, i) ==
    LET pat == "href=\"/study/history/" \o slug \o "/"
    IN  HasAt(html, i, pat) /\ HasAt(html, LinkEnd(html, i + Len(pat)), "\"")

\* re.findall(r'href="(/study/history/SLUG/[^\" ]*)"', html): the captured groups
\* of the non-overlapping matches, scanning left to right from position i.
RECURSIVE FindAllHref(_, _, _)
FindAllHref(html, slug, i) ==
    LET P(k) == HrefAt(html, slug, k)
        m    == First(i, Len(html), P)
        e    == LinkEnd(html, m + 6)
    IN  IF m = 0 THEN <<>>
        ELSE <<SubSeq(html, m + 6, e - 1)>> \o FindAllHref(html, slug, e + 1)

\* re.search(r'/\d{2}-', link) matches at position i
ChapterAt(link, i) ==
    At(link, i) = "/" /\ IsDigit(link, i + 1) /\ IsDigit(link, i + 2) /\ HasAt(link, i + 3, "-")

\* re.search(r'/s\d+-episode-\d+', link) matches at position i
EpisodeAt(link, i) ==
    /\ HasAt(link, i, "/s")
    /\ IsDigit(link, i + 2)
    /\ HasAt(link, DigitsEnd(link, i + 2), "-episode-")
    /\ IsDigit(link, DigitsEnd(link, i + 2) + 9)

IsChapterLink(link) == \E i \in 1..Len(link) : ChapterAt(link, i)
IsEpisodeLink(link) == \E i \in 1..Len(link) : EpisodeAt(link, i)

\* list(dict.fromkeys(xs)): each element once, at the place of its first occurrence
RECURSIVE DictFromKeys(_)
DictFromKeys(xs) ==
    IF xs = <<>> THEN <<>>
    ELSE LET init == DictFromKeys(SubSeq(xs, 1, Len(xs) - 1))
             last == xs[Len(xs)]
         IN  IF \E k \in 1..Len(init) : init[k] = last THEN init ELSE Append(init, last)

\* [link for link in links if re.search(r'/\d{2}-', link)]
RECURSIVE FilterChapters(_)
FilterChapters(xs) ==
    IF xs = <<>> THEN <<>>
    ELSE (IF IsChapterLink(Head(xs)) THEN <<Head(xs)>> ELSE <<>>) \o FilterChapters(Tail(xs))

\* [link for link in links if re.search(r'/s\d+-episode-\d+', link)]
RECURSIVE FilterEpisodes(_)
FilterEpisodes(xs) ==
    IF xs = <<>> THEN <<>>
    ELSE (IF IsEpisodeLink(Head(xs)) THEN <<Head(xs)>> ELSE <<>>) \o FilterEpisodes(Tail(xs))

\* extract_chapter_links without the dict.fromkeys of line 48
extract_chapter_links_nodedup(volume_slug, html) ==
    FilterChapters(FindAllHref(html, volume_slug, 1))

\* extract_chapter_links, applied to the listing page get_html returned
extract_chapter_links(volume_slug, html) ==
    DictFromKeys(FilterChapters(FindAllHref(html, volume_slug, 1)))

\* extract_episode_links, applied to the listing page get_html returned
extract_episode_links(season_slug, html) ==
    DictFromKeys(FilterEpisodes(FindAllHref(html, season_slug, 1)))

(***************************************************************************)
(* 4.3 Audio-metadata resolver                                             *)
(* A detail page is [marker, valid, store]: whether the text holds the     *)
(* window.__INITIAL_STATE__="..." assignment, whether its blob decodes     *)
(* (base64, then JSON), and the reader.contentStore of the decoded object  *)
(* as the sequence of its [key, entry] items in dict order.  An entry is   *)
(* [kind, title, audio]: kind "entry" for a non-empty dict with its        *)
(* meta.title (None when the key is missing) and its meta.audio, a         *)
(* sequence of [variant, mediaUrl] records (mediaUrl None when the key is  *)
(* missing); kind "empty" for the dict {}; kind "none" for None.           *)
(***************************************************************************)
NoEntry    == [kind |-> "none", title |-> None, audio |-> <<>>]
EmptyEntry == [kind |-> "empty", title |-> None, audio |-> <<>>]

\* `not entry`
NotEntry(entry) == entry.kind # "entry"

\* store.get(key)
StoreGet(store, key) ==
    IF \E k \in 1..Len(store) : store[k].key = key
    THEN store[CHOOSE k \in 1..Len(store) : store[k].key = key].entry
    ELSE NoEntry

\* chapter_url.replace("/study", "")
Key1(chapter_url) == Replace(chapter_url, "/study", "")

\* chapter_url.split("?", 1)[0].replace("/study", "")
Key2(chapter_url) == Replace(BeforeFirst(chapter_url, "?"), "/study", "")

\* chapter_url.split('?')[0].split('/')[-1]
Slug(chapter_url) == AfterLast(BeforeFirst(chapter_url, "?"), "/")

\* for key in store: if key.endswith('/' + slug): entry = store[key]; break
ScanStore(store, slug) ==
    LET hits == {k \in 1..Len(store) : EndsWith(store[k].key, "/" \o slug)}
    IN  IF hits = {} THEN NoEntry
        ELSE store[CHOOSE k \in hits : \A j \in hits : k <= j].entry

\* lines 65-78: the entry the three lookups end with (NotEntry: a soft miss)
LookupEntry(store, chapter_url) ==
    LET e1 == StoreGet(store, Key1(chapter_url))
        e2 == IF NotEntry(e1) THEN StoreGet(store, Key2(chapter_url)) ELSE e1
    IN  IF NotEntry(e2) THEN ScanStore(store, Slug(chapter_url)) ELSE e2

\* lines 81-85: the mediaUrl of the first entry whose variant is "male", else None
MaleUrl(audio_list) ==
    LET males == {k \in 1..Len(audio_list) : audio_list[k].variant = "male"}
    IN  IF males = {} THEN None
        ELSE audio_list[CHOOSE k \in males : \A j \in males : k <= j].mediaUrl

\* lines 81-87 without the loop that prefers "male"
SelectFirstAudio(audio_list) ==
    IF audio_list # <<>> THEN audio_list[1].mediaUrl ELSE None

\* lines 81-87
SelectAudio(audio_list) ==
    IF Falsy(MaleUrl(audio_list)) /\ audio_list # <<>>
    THEN audio_list[1].mediaUrl
    ELSE MaleUrl(audio_list)

\* entry.get("meta", {}).get("title", "chapter")
EntryTitle(entry) == IF entry.title = None THEN "chapter" ELSE entry.title

\* parse_audio_link, applied to the detail page get_html returned: the pair
\* (audio_url, title), or raised when b64decode / json.loads raises on the blob
parse_audio_link(page, chapter_url) ==
    LET entry == LookupEntry(page.store, chapter_url)
    IN  IF ~page.marker
        THEN [raised |-> FALSE, audio_url |-> None, title |-> None]
        ELSE IF ~page.valid
        THEN [raised |-> TRUE, audio_url |-> None, title |-> None]
        ELSE IF NotEntry(entry)
        THEN [raised |-> FALSE, audio_url |-> None, title |-> None]
        ELSE [raised |-> FALSE, audio_url |-> SelectAudio(entry.audio), title |-> EntryTitle(entry)]

(***************************************************************************)
(* 4.5 File naming                                                         *)
(***************************************************************************)
\* re.search(r'/([0-9][0-9])-', link): group 1 of the leftmost match, "" when none
ChapterPrefix(link) ==
    LET hits == {i \in 1..Len(link) : ChapterAt(link, i)}
        i0   == CHOOSE i \in hits : \A j \in hits : i <= j
    IN  IF hits = {} THEN "" ELSE SubSeq(link, i0 + 1, i0 + 2)

\* re.search(r'/(s\d+-episode-\d+)', link): group 1 of the leftmost match, "" when none
EpisodePrefix(link) ==
    LET hits == {i \in 1..Len(link) : EpisodeAt(link, i)}
        i0   == CHOOSE i \in hits : \A j \in hits : i <= j
    IN  IF hits = {} THEN ""
        ELSE SubSeq(link, i0 + 1, DigitsEnd(link, DigitsEnd(link, i0 + 2) + 9) - 1)

\* re.sub(r'^\d+', '', title): the whitespace after the digits is kept
CleanTitleDigitsOnly(title) ==
    IF IsDigit(title, 1) THEN SubSeq(title, DigitsEnd(title, 1), Len(title)) ELSE title

\* re.sub(r'^\d+\s*', '', title), title a str
CleanTitle(title) ==
    IF IsDigit(title, 1)
    THEN SubSeq(title, SpacesEnd(title, DigitsEnd(title, 1)), Len(title))
    ELSE title

\* f"{prefix} {title_cleaned}.mp3".replace('/', '-')
FileName(prefix, title) == Replace(prefix \o " " \o CleanTitle(title) \o ".mp3", "/", "-")

\* process_volume lines 113-118 and process_podcast_season lines 142-145
chapter_filename(link, title) == FileName(ChapterPrefix(link), title)
episode_filename(link, title) == FileName(EpisodePrefix(link), title)

\* os.path.join(os.path.join(dest, name), filename)
OutPath(name, filename) == Dest \o "/" \o name \o "/" \o filename

\* os.path.dirname(path) and the parents os.makedirs creates with it
MadeDirs(name) == {Dest, Dest \o "/" \o name}

(***************************************************************************)
(* The static tables (lines 11-23), in dict order                          *)
(***************************************************************************)
VOLUMES ==
    << [name |-> "Volume 1", slug |-> "saints-v1", kind |-> "volume"],
       [name |-> "Volume 2", slug |-> "saints-v2", kind |-> "volume"],
       [name |-> "Volume 3", slug |-> "saints-v3", kind |-> "volume"],
       [name |-> "Volume 4", slug |-> "saints-v4", kind |-> "volume"] >>

PODCAST_SEASONS ==
    << [name |-> "Podcast Season 1", slug |-> "saints-podcast/season-01", kind |-> "season"],
       [name |-> "Podcast Season 2", slug |-> "saints-podcast/season-02", kind |-> "season"],
       [name |-> "Podcast Season 3", slug |-> "saints-podcast/season-03", kind |-> "season"],
       [name |-> "Podcast Season 4", slug |-> "saints-podcast/season-04", kind |-> "season"] >>

NoDescriptor == [name |-> "", slug |-> "", kind |-> ""]

(***************************************************************************)
(* The remote site: what get_html and urlopen are answered with.           *)
(* A site is the sequence of the items its listing pages link to, the same *)
(* for every volume and season; an item is an index of Items, which gives  *)
(* the last path segment of its chapter link, of its episode link, and the *)
(* shape of its detail page.                                               *)
(***************************************************************************)
Items ==
    << [ch |-> "01-a",          ep |-> "s1-episode-1-a",          page |-> "exact"],
       [ch |-> "01-b?lang=eng", ep |-> "s1-episode-1-b?lang=eng", page |-> "query"],
       [ch |-> "02-c",          ep |-> "s1-episode-2-c",          page |-> "silent"],
       [ch |-> "03-d",          ep |-> "s1-episode-3-d",          page |-> "untitled"],
       [ch |-> "04-e",          ep |-> "s1-episode-4-e",          page |-> "nomarker"],
       [ch |-> "05-f",          ep |-> "s1-episode-5-f",          page |-> "corrupt"],
       [ch |-> "06-g",          ep |-> "s1-episode-6-g",          page |-> "miss"],
       [ch |-> "07-h",          ep |-> "s1-episode-7-h",          page |-> "relative"] >>

ItemText(d, k) == IF d.kind = "volume" THEN Items[k].ch ELSE Items[k].ep

\* the anchors of a listing page, one per item of the site
RECURSIVE Anchors(_, _)
Anchors(d, items) ==
    IF items = <<>> THEN ""
    ELSE "<a href=\"/study/history/" \o d.slug \o "/" \o ItemText(d, Head(items)) \o "\">"
         \o Anchors(d, Tail(items))

\* the body served for BASE_URL/study/history/{slug}?lang=eng: the anchors of the
\* items between a link that fails the shape filter and a link of another section
Listing(s, d) ==
    "<a href=\"/study/history/" \o d.slug \o "/introduction\">"
    \o Anchors(d, s)
    \o "<a class=\"nav\" href=\"/study/manual/01-x\">"

MediaUrl(link) == "https://media.example/" \o link \o ".mp3"

\* the detail page served for BASE_URL{link}, link being the k-th item under d
ItemPage(d, k, link) ==
    LET base  == "/history/" \o d.slug \o "/"
        text  == BeforeFirst(ItemText(d, k), "?")
        male  == [variant |-> "male", mediaUrl |-> MediaUrl(link)]
        fem   == [variant |-> "female", mediaUrl |-> MediaUrl(link) \o "?v=f"]
        other == [key |-> base \o "00-z",
                  entry |-> [kind |-> "entry", title |-> "Z", audio |-> <<>>]]
        page(st) == [marker |-> TRUE, valid |-> TRUE, store |-> st]
    IN  CASE Items[k].page = "exact" ->
                page(<<other, [key |-> base \o text,
                               entry |-> [kind |-> "entry", title |-> "1 A", audio |-> <<fem, male>>]]>>)
          [] Items[k].page = "query" ->
                page(<<[key |-> base \o text,
                        entry |-> [kind |-> "entry", title |-> "A", audio |-> <<male>>]]>>)
          [] Items[k].page = "silent" ->
                page(<<other, [key |-> "/content/" \o text,
                               entry |-> [kind |-> "entry", title |-> "", audio |-> <<>>]]>>)
          [] Items[k].page = "untitled" ->
                page(<<[key |-> base \o text,
                        entry |-> [kind |-> "entry", title |-> None, audio |-> <<fem>>]]>>)
          [] Items[k].page = "relative" ->
                page(<<[key |-> base \o text,
                        entry |-> [kind |-> "entry", title |-> "7 H",
                                   audio |-> <<[variant |-> "male",
                                                mediaUrl |-> "/media/" \o text \o ".mp3"]>>]]>>)
          [] Items[k].page = "nomarker" ->
                [marker |-> FALSE, valid |-> TRUE, store |-> <<>>]
          [] Items[k].page = "corrupt" ->
                [marker |-> TRUE, valid |-> FALSE, store |-> <<>>]
          [] OTHER -> page(<<other>>)

\* the item a link of descriptor d leads to
ItemOf(d, link) ==
    CHOOSE k \in 1..Len(Items) : link = "/study/history/" \o d.slug \o "/" \o ItemText(d, k)

DetailPage(d, link) == ItemPage(d, ItemOf(d, link), link)

\* the bytes urlopen(url).read() returns during run r
Bytes(url, r) == [url |-> url, run |-> r]

(***************************************************************************)
(* 4.4 File downloader                                                     *)
(***************************************************************************)
\* download_file without the check of lines 95-96
ExistsIgnored(files, path) == FALSE

\* os.path.exists(path)
Exists(files, path) == path \in DOMAIN files

Event(op, a, b) == [op |-> op, a |-> a, b |-> b]

\* s.strip()
Strip(s) ==
    LET ns == {k \in 1..Len(s) : At(s, k) \notin Spaces}
    IN  IF ns = {} THEN ""
        ELSE SubSeq(s, CHOOSE k \in ns : \A j \in ns : k <= j,
                       CHOOSE k \in ns : \A j \in ns : j <= k)

\* urllib.parse.unwrap(url): '<URL:scheme://host/path>' gives 'scheme://host/path'
Unwrap(url) ==
    LET u == Strip(url)
        v == IF HasAt(u, 1, "<") /\ EndsWith(u, ">") THEN Strip(SubSeq(u, 2, Len(u) - 1)) ELSE u
    IN  IF HasAt(v, 1, "URL:") THEN Strip(SubSeq(v, 5, Len(v))) ELSE v

\* urllib.parse._splittag(url)[0]: the text before the last '#'
SplitTag(url) ==
    LET k == RFind(url, "#") IN IF k = 0 THEN url ELSE SubSeq(url, 1, k - 1)

\* urllib.request.Request(url), line 97, accepts url: after unwrap and _splittag
\* it starts with '[^/:]+:', a scheme. Otherwise Request raises ValueError
\* ("unknown url type").
HasScheme(url) ==
    LET u == SplitTag(Unwrap(url))
        P(k) == At(u, k) = "/" \/ At(u, k) = ":"
        k == First(1, Len(u), P)
    IN  k >= 2 /\ At(u, k) = ":"

\* what is left of a file whose write failed part-way: open(path, "wb") has
\* created it, f.write did not complete
Truncated(url, r) == [url |-> url, run |-> r, cut |-> TRUE]

\* os.makedirs(os.path.dirname(path), exist_ok=True) raising, the directory
\* not existing yet: nothing, or only its parent, has been created
MakedirsFailed(folders) == {folders, folders \cup {Dest}}

\* download_file with open(path, "wb") entered before urlopen: a failed fetch
\* leaves an empty file behind
download_file_open_first(url, path, name, files, folders, r) ==
    IF Falsy(url)
    THEN {[files |-> files, dirs |-> folders, raised |-> FALSE, events |-> <<>>]}
    ELSE IF Exists(files, path)
    THEN {[files |-> files, dirs |-> folders \cup MadeDirs(name), raised |-> FALSE,
           events |-> <<>>]}
    ELSE (IF MadeDirs(name) \subseteq folders THEN {}
          ELSE {[files |-> files, dirs |-> d, raised |-> TRUE, events |-> <<>>] :
                   d \in MakedirsFailed(folders)})
         \cup
         (IF ~HasScheme(url)
          THEN {[files |-> files, dirs |-> folders \cup MadeDirs(name), raised |-> TRUE,
                 events |-> <<>>]}
          ELSE
         {[files |-> (path :> Truncated(url, r)) @@ files,
           dirs |-> folders \cup MadeDirs(name), raised |-> TRUE,
           events |-> <<Event("fetch", url, "fail")>>],
          [files |-> (path :> Truncated(url, r)) @@ files,
           dirs |-> folders \cup MadeDirs(name), raised |-> TRUE,
           events |-> <<Event("fetch", url, "ok")>>],
          [files |-> (path :> Bytes(url, r)) @@ files, dirs |-> folders \cup MadeDirs(name),
           raised |-> FALSE,
           events |-> <<Event("fetch", url, "ok"), Event("write", path, url)>>]})

\* download_file(url, path), path being OutPath(name, ...): the outcomes it can
\* have on the files and directories present, as [files, dirs, raised, events],
\* events being the fetch and the completed write. Line 94 raises (OSError) or
\* creates the directories (it cannot raise when they exist); Request (line 97)
\* raises ValueError for a URL without a scheme; urlopen / read (lines 100-101)
\* raises or returns the bytes; open (line 102) raises, leaving no file, or
\* creates the file; f.write (line 103) raises, leaving the file cut short, or
\* completes.
download_file(url, path, name, files, folders, r) ==
    IF Falsy(url)
    THEN {[files |-> files, dirs |-> folders, raised |-> FALSE, events |-> <<>>]}
    ELSE IF Exists(files, path)
    THEN {[files |-> files, dirs |-> folders \cup MadeDirs(name), raised |-> FALSE,
           events |-> <<>>]}
    ELSE (IF MadeDirs(name) \subseteq folders THEN {}
          ELSE {[files |-> files, dirs |-> d, raised |-> TRUE, events |-> <<>>] :
                   d \in MakedirsFailed(folders)})
         \cup
         (IF ~HasScheme(url)
          THEN {[files |-> files, dirs |-> folders \cup MadeDirs(name), raised |-> TRUE,
                 events |-> <<>>]}
          ELSE
         {[files |-> files, dirs |-> folders \cup MadeDirs(name), raised |-> TRUE,
           events |-> <<Event("fetch", url, "fail")>>],
          [files |-> files, dirs |-> folders \cup MadeDirs(name), raised |-> TRUE,
           events |-> <<Event("fetch", url, "ok")>>],
          [files |-> (path :> Truncated(url, r)) @@ files,
           dirs |-> folders \cup MadeDirs(name), raised |-> TRUE,
           events |-> <<Event("fetch", url, "ok")>>],
          [files |-> (path :> Bytes(url, r)) @@ files, dirs |-> folders \cup MadeDirs(name),
           raised |-> FALSE,
           events |-> <<Event("fetch", url, "ok"), Event("write", path, url)>>]})

\* the exception a raising download_file call ended with, o being its outcome:
\* the one of urlopen when the fetch failed; the ValueError of Request when
\* nothing was fetched although the directories were made; else the OSError of
\* makedirs, open or write
Raised(path, name, o) ==
    IF o.events # <<>> /\ o.events[Len(o.events)].b = "fail"
    THEN <<>>
    ELSE IF o.events = <<>> /\ MadeDirs(name) \subseteq o.dirs
    THEN <<Event("raise", "ValueError", path)>>
    ELSE <<Event("raise", "OSError", path)>>

(***************************************************************************)
(* 4.6 Entry point and 4.5 orchestrator, one action per step               *)
(***************************************************************************)
\* lines 174-180 with the two loops in the other order
WorkListPodcastsFirst(books, podcasts) ==
    LET b == books \/ (~books /\ ~podcasts)
        p == podcasts \/ (~books /\ ~podcasts)
    IN  (IF p THEN PODCAST_SEASONS ELSE <<>>) \o (IF b THEN VOLUMES ELSE <<>>)

\* lines 169-180: the descriptors main processes, in order
WorkList(books, podcasts) ==
    LET b == books \/ (~books /\ ~podcasts)
        p == podcasts \/ (~books /\ ~podcasts)
    IN  (IF b THEN VOLUMES ELSE <<>>) \o (IF p THEN PODCAST_SEASONS ELSE <<>>)

\* an exception caught around process_volume / process_podcast_season: main
\* goes on with its loop
UncaughtSwallowed(events) ==
    /\ pc' = "main"
    /\ trace' = trace \o events
    /\ UNCHANGED <<args, site, run, work, cur, links, details, idx, inp, outp>>

\* an exception nothing catches (there is no try around any call): the run ends
\* where it is
Uncaught(events) ==
    /\ pc' = "aborted"
    /\ trace' = trace \o events
    /\ UNCHANGED <<args, site, run, work, cur, links, details, idx, inp, outp>>

\* main, lines 163-172
Start ==
    /\ pc = "start"
    /\ work' = WorkList(args.books, args.podcasts)
    /\ pc' = "main"
    /\ UNCHANGED <<args, site, run, cur, links, details, idx, fs, dirs, trace, hist, inp, outp>>

\* lines 175-176 / 179-180 entering process_volume / process_podcast_season, and
\* lines 107-110 / 136-139: the listing page is fetched and its links extracted
Extract ==
    /\ pc = "main"
    /\ work # <<>>
    /\ UNCHANGED <<fs, dirs, hist>>
    /\ LET d == Head(work)
       IN  \/ Uncaught(<<Event("listing", d.slug, "fail")>>)
           \/ /\ cur' = d
              /\ work' = Tail(work)
              /\ links' = IF d.kind = "volume"
                          THEN extract_chapter_links(d.slug, Listing(site, d))
                          ELSE extract_episode_links(d.slug, Listing(site, d))
              /\ details' = <<>>
              /\ pc' = "resolve"
              /\ trace' = Append(trace, Event("listing", d.slug, "ok"))
              /\ UNCHANGED <<args, site, run, idx, inp, outp>>

\* one iteration of the loop of lines 111-120 / 140-147; with title None the
\* re.sub of line 117 / 144 raises TypeError
Resolve ==
    /\ pc = "resolve"
    /\ links # <<>>
    /\ UNCHANGED <<fs, dirs, hist>>
    /\ LET link == Head(links)
           page == DetailPage(cur, link)
           r    == parse_audio_link(page, link)
           file == IF cur.kind = "volume" THEN chapter_filename(link, r.title)
                   ELSE episode_filename(link, r.title)
           why  == IF ~page.marker THEN "marker" ELSE IF r.title = None THEN "entry" ELSE "audio"
       IN  \/ Uncaught(<<Event("detail", link, "fail")>>)
           \/ /\ r.raised
              /\ Uncaught(<<Event("detail", link, "ok"), Event("raise", "decode", link)>>)
           \/ /\ ~r.raised
              /\ r.title = None
              /\ Uncaught(<<Event("detail", link, "ok"), Event("miss", link, why),
                            Event("raise", "TypeError", link)>>)
           \/ /\ ~r.raised
              /\ r.title # None
              /\ details' = Append(details, [audio_url |-> r.audio_url,
                                             out_path |-> OutPath(cur.name, file),
                                             title |-> r.title, link |-> link])
              /\ links' = Tail(links)
              /\ trace' = trace \o <<Event("detail", link, "ok")>>
                                \o (IF Falsy(r.audio_url) THEN <<Event("miss", link, why)>> ELSE <<>>)
              /\ UNCHANGED <<args, site, run, pc, work, cur, idx, inp, outp>>

\* line 122 / 149
PrintHeader ==
    /\ pc = "resolve"
    /\ links = <<>>
    /\ pc' = "print"
    /\ idx' = 1
    /\ trace' = Append(trace, Event("header", cur.name, ""))
    /\ UNCHANGED <<args, site, run, work, cur, links, details, fs, dirs, hist, inp, outp>>

\* one iteration of the loop of lines 123-125 / 150-152
PrintUrl ==
    /\ pc = "print"
    /\ idx <= Len(details)
    /\ idx' = idx + 1
    /\ trace' = IF Falsy(details[idx].audio_url) THEN trace
                ELSE Append(trace, Event("url", details[idx].audio_url, details[idx].link))
    /\ UNCHANGED <<args, site, run, pc, work, cur, links, details, fs, dirs, hist, inp, outp>>

\* line 127 / 154
BeginDownloads ==
    /\ pc = "print"
    /\ idx > Len(details)
    /\ pc' = "download"
    /\ idx' = 1
    /\ UNCHANGED <<args, site, run, work, cur, links, details, fs, dirs, trace, hist, inp, outp>>

\* one iteration of the loop of lines 128-132 / 155-159
Download ==
    /\ pc = "download"
    /\ idx <= Len(details)
    /\ LET t    == details[idx]
           call == Event("download", t.link, t.out_path)
       IN  \E o \in download_file(t.audio_url, t.out_path, cur.name, fs, dirs, run) :
             /\ fs' = o.files
             /\ dirs' = o.dirs
             /\ hist' = Append(hist, [path |-> t.out_path, url |-> t.audio_url, run |-> run,
                                      had |-> t.out_path \in DOMAIN fs,
                                      left |-> t.out_path \in DOMAIN o.files,
                                      name |-> cur.name,
                                      nodir |-> /\ o.raised /\ o.events = <<>>
                                                /\ ~(MadeDirs(cur.name) \subseteq o.dirs),
                                      nourl |-> /\ o.raised /\ o.events = <<>>
                                                /\ MadeDirs(cur.name) \subseteq o.dirs,
                                      events |-> o.events])
             /\ IF o.raised
                THEN Uncaught(<<call>> \o o.events \o Raised(t.out_path, cur.name, o))
                ELSE /\ idx' = idx + 1
                     /\ trace' = trace \o <<call>> \o o.events
                                 \o (IF Falsy(t.audio_url)
                                     THEN <<Event("warn", IF Falsy(t.title) THEN t.link ELSE t.title,
                                                  t.link)>>
                                     ELSE <<>>)
                     /\ UNCHANGED <<args, site, run, pc, work, cur, links, details, inp, outp>>

\* the end of process_volume / process_podcast_season
EndVolume ==
    /\ pc = "download"
    /\ idx > Len(details)
    /\ pc' = "main"
    /\ UNCHANGED <<args, site, run, work, cur, links, details, idx, fs, dirs, trace, hist, inp, outp>>

\* the end of main
Finish ==
    /\ pc = "main"
    /\ work = <<>>
    /\ pc' = "done"
    /\ UNCHANGED <<args, site, run, work, cur, links, details, idx, fs, dirs, trace, hist, inp, outp>>

\* the operator runs the program again with the same arguments, on the same disk
Rerun ==
    /\ pc \in {"done", "aborted"}
    /\ run < MaxRuns
    /\ run' = run + 1
    /\ pc' = "start"
    /\ work' = <<>>
    /\ cur' = NoDescriptor
    /\ links' = <<>>
    /\ details' = <<>>
    /\ idx' = 1
    /\ trace' = <<>>
    /\ UNCHANGED <<args, site, fs, dirs, hist, inp, outp>>

\* sequences over S of length at most n
SeqUpTo(S, n) == UNION {[1..k -> S] : k \in 0..n}

Sites == SeqUpTo(1..Len(Items), MaxLinks)

NoPage == [marker |-> FALSE, valid |-> TRUE, store |-> <<>>]

NoInput == [kind |-> "", slug |-> "", html |-> "", link |-> "", title |-> "", page |-> NoPage]

InitRun(a, s) ==
    /\ args = a
    /\ site = s
    /\ run = 1
    /\ pc = "start"
    /\ work = <<>>
    /\ cur = NoDescriptor
    /\ links = <<>>
    /\ details = <<>>
    /\ idx = 1
    /\ fs = <<>>
    /\ dirs = {}
    /\ trace = <<>>
    /\ hist = <<>>
    /\ inp = NoInput
    /\ outp = <<>>

Init ==
    \E a \in [books : BOOLEAN, podcasts : BOOLEAN], s \in Sites : InitRun(a, s)

Next ==
    \/ Start
    \/ Extract
    \/ Resolve
    \/ PrintHeader
    \/ PrintUrl
    \/ BeginDownloads
    \/ Download
    \/ EndVolume
    \/ Finish

Spec == Init /\ [][Next]_vars
(***************************************************************************)
(* Re-runs: the program is run again on the disk an earlier run left       *)
(***************************************************************************)
\* the sites of the re-run study: two chapters with different file names, two
\* with the same file name, one chapter with audio and one without, one with
\* audio and one whose media URL has no scheme
RerunSites == {<<1, 4>>, <<1, 2>>, <<3, 1>>, <<1, 8>>}

InitRerun ==
    \E a \in {[books |-> TRUE, podcasts |-> FALSE], [books |-> FALSE, podcasts |-> TRUE]},
       s \in RerunSites : InitRun(a, s)

NextRerun == Next \/ Rerun

SpecRerun == InitRerun /\ [][NextRerun]_vars

(***************************************************************************)
(* The pure functions, each applied once to an input drawn in Init         *)
(***************************************************************************)
RECURSIVE Join(_)
Join(parts) == IF parts = <<>> THEN "" ELSE Head(parts) \o Join(Tail(parts))

Pick(table, ks) == [i \in 1..Len(ks) |-> table[ks[i]]]

InitPure(i) ==
    /\ inp = i
    /\ outp = <<>>
    /\ pc = "call"
    /\ args = [books |-> FALSE, podcasts |-> FALSE]
    /\ site = <<>>
    /\ run = 1
    /\ work = <<>>
    /\ cur = NoDescriptor
    /\ links = <<>>
    /\ details = <<>>
    /\ idx = 1
    /\ fs = <<>>
    /\ dirs = {}
    /\ trace = <<>>
    /\ hist = <<>>

Return(v) ==
    /\ pc = "call"
    /\ pc' = "return"
    /\ outp' = v
    /\ UNCHANGED <<args, site, run, work, cur, links, details, idx, fs, dirs, trace, hist, inp>>

\* -- link extraction ----------------------------------------------------
Fragments ==
    << "<a href=\"/study/history/saints-v1/01-a\">",
       "<a href=\"/study/history/saints-v1/02-b?lang=eng\">",
       "<a href=\"/study/history/saints-v1/about\">",
       "<a href=\"/study/history/saints-v2/01-a\">",
       "<a href=\"/study/history/saints-v1/03 c\">",
       "<a href=\"/study/history/saints-v1/01-a",
       "<a href=\"/study/history/saints-podcast/season-01/s1-episode-2-x\">",
       "<a href=\"/study/history/saints-podcast/season-01/s-episode-1\">",
       "<a href=\"/study/history/saints-podcast/season-01/01-intro\">" >>

Bodies == {Join(Pick(Fragments, ks)) : ks \in SeqUpTo(1..Len(Fragments), MaxFrags)}

InitExtract ==
    \E k \in {"chapter", "episode"}, sl \in {"saints-v1", "saints-podcast/season-01"},
       b \in Bodies :
        InitPure([NoInput EXCEPT !.kind = k, !.slug = sl, !.html = b])

ExtractChapters ==
    /\ inp.kind = "chapter"
    /\ Return(extract_chapter_links(inp.slug, inp.html))

ExtractEpisodes ==
    /\ inp.kind = "episode"
    /\ Return(extract_episode_links(inp.slug, inp.html))

NextExtract == ExtractChapters \/ ExtractEpisodes

SpecExtract == InitExtract /\ [][NextExtract]_vars

\* -- content-entry lookup and variant selection --------------------------
Parse ==
    /\ inp.kind = "parse"
    /\ Return(parse_audio_link(inp.page, inp.link))

NextParse == Parse

LookupLinks ==
    { "/study/history/saints-v1/01-foo",
      "/study/history/saints-v1/01-foo?lang=eng",
      "/study/history/saints-v1/02-bar/study-guide" }

LookupKeys ==
    << "/history/saints-v1/01-foo",
       "/history/saints-v1/01-foo?lang=eng",
       "/content/01-foo",
       "/history/saints-v1/01-foo/study-guide",
       "/history/saints-v1/02-bar/study-guide",
       "/study/history/saints-v1/01-foo",
       "/history/saints-v1/09-zed" >>

\* a store item: the entry of key k is titled k, or is the empty dict
StoreItem(k, full) ==
    [key |-> LookupKeys[k],
     entry |-> IF full THEN [kind |-> "entry", title |-> LookupKeys[k], audio |-> <<>>]
               ELSE EmptyEntry]

\* the stores of at most MaxStore keys, no key twice (a dict)
Stores ==
    {[i \in 1..Len(ks) |-> StoreItem(ks[i][1], ks[i][2])] :
        ks \in {q \in SeqUpTo((1..Len(LookupKeys)) \X BOOLEAN, MaxStore) :
                    \A i, j \in 1..Len(q) : i # j => q[i][1] # q[j][1]}}

InitLookup ==
    \E l \in LookupLinks, st \in Stores :
        InitPure([NoInput EXCEPT !.kind = "parse", !.link = l,
                                 !.page = [marker |-> TRUE, valid |-> TRUE, store |-> st]])

SpecLookup == InitLookup /\ [][NextParse]_vars

Variants == {"male", "female", None}
MediaUrls == {"A", "B", "", None}

AudioLists == SeqUpTo([variant : Variants, mediaUrl : MediaUrls], MaxAudio)

AudioLink == "/study/history/saints-v1/01-foo"

InitAudio ==
    \E al \in AudioLists :
        InitPure([NoInput EXCEPT
            !.kind = "parse", !.link = AudioLink,
            !.page = [marker |-> TRUE, valid |-> TRUE,
                      store |-> <<[key |-> "/history/saints-v1/01-foo",
                                   entry |-> [kind |-> "entry", title |-> "T", audio |-> al]]>>]])

SpecAudio == InitAudio /\ [][NextParse]_vars

\* -- file naming ----------------------------------------------------------
\* the last two parts are a vertical tab and a no-break space
TitleParts == << "3", "12", " ", "\t", "An Eye Single", "a/b", "", " " >>

Titles == {Join(Pick(TitleParts, ks)) : ks \in SeqUpTo(1..Len(TitleParts), MaxParts)}

NameLinks ==
    { "/study/history/saints-v1/03-an-eye-single",
      "/study/history/saints-v1/about",
      "/study/history/saints-v1/1-x/22-b/33-c?lang=eng",
      "/study/history/saints-podcast/season-01/s1-episode-2-x?lang=eng",
      "/study/history/saints-podcast/season-01/s12-episode-345",
      "/study/history/saints-podcast/season-01/s-episode-1/s3-episode-4" }

InitName ==
    \E k \in {"volume", "season"}, l \in NameLinks, t \in Titles :
        InitPure([NoInput EXCEPT !.kind = k, !.link = l, !.title = t])

NameChapter ==
    /\ inp.kind = "volume"
    /\ Return(chapter_filename(inp.link, inp.title))

NameEpisode ==
    /\ inp.kind = "season"
    /\ Return(episode_filename(inp.link, inp.title))

NextName == NameChapter \/ NameEpisode

SpecName == InitName /\ [][NextName]_vars
(***************************************************************************)
(* Reading the trace                                                       *)
(***************************************************************************)
IsFailure(e) ==
    \/ e.op \in {"listing", "detail", "fetch"} /\ e.b = "fail"
    \/ e.op = "raise"

\* the events of the volume / season being processed: those after the last
\* listing-page fetch
LastListing ==
    IF \E k \in 1..Len(trace) : trace[k].op = "listing"
    THEN CHOOSE k \in 1..Len(trace) :
            trace[k].op = "listing" /\ \A j \in (k + 1)..Len(trace) : trace[j].op # "listing"
    ELSE 0

Batch == SubSeq(trace, LastListing + 1, Len(trace))

\* place of a slug in the static tables, volumes first
TableOrder == VOLUMES \o PODCAST_SEASONS
TableIndex(slug) == CHOOSE k \in 1..Len(TableOrder) : TableOrder[k].slug = slug

FetchedOk(h) == \E k \in 1..Len(h.events) : h.events[k].op = "fetch" /\ h.events[k].b = "ok"
FetchFailed(h) == \E k \in 1..Len(h.events) : h.events[k].op = "fetch" /\ h.events[k].b = "fail"
Wrote(h) == \E k \in 1..Len(h.events) : h.events[k].op = "write"

(***************************************************************************)
(* C1  A soft miss is survived: when a detail page has no embedded-state   *)
(* marker, no exception follows the miss, and a run that completes has     *)
(* printed a warning naming the item and has written no file for it.       *)
(***************************************************************************)
C1_SoftMissContinues ==
    /\ \A k \in 1..Len(trace) :
          trace[k].op = "miss" /\ trace[k].b = "marker"
              => ~(k < Len(trace) /\ trace[k + 1].op = "raise")
    /\ pc = "done" =>
          \A k \in 1..Len(trace) :
              trace[k].op = "miss" =>
                  \E j \in (k + 1)..Len(trace) : trace[j].op = "warn" /\ trace[j].b = trace[k].a

(***************************************************************************)
(* C7  After a complete first run, every volume / season directory holds   *)
(* as many files as the volume / season has links with a resolved audio    *)
(* URL.                                                                    *)
(***************************************************************************)
FilesUnder(d) == {p \in DOMAIN fs : HasAt(p, 1, Dest \o "/" \o d.name \o "/")}

ResolvedLinks(d) ==
    {trace[k].b : k \in {j \in 1..Len(trace) :
        trace[j].op = "url" /\ HasAt(trace[j].b, 1, "/study/history/" \o d.slug \o "/")}}

C7_OneFilePerResolvedLink ==
    (pc = "done" /\ run = 1) =>
        \A k \in 1..Len(TableOrder) :
            Cardinality(FilesUnder(TableOrder[k])) = Cardinality(ResolvedLinks(TableOrder[k]))

(***************************************************************************)
(* C8  A failed fetch or a blob that does not decode (as any other         *)
(* exception) ends the run: the failure is the last thing the run does,    *)
(* and the files on disk are those written before it, unchanged. The only  *)
(* other file there can be is the one a write that failed itself cut short.*)
(***************************************************************************)
WritesBefore(k) == {j \in 1..k : trace[j].op = "write"}

\* the destination of the call that an OSError ended, when that ended the run
CutShort ==
    IF trace # <<>> /\ trace[Len(trace)].op = "raise" /\ trace[Len(trace)].a = "OSError"
    THEN {trace[Len(trace)].b}
    ELSE {}

C8_HardFailureEndsRun ==
    /\ \A k \in 1..Len(trace) :
          IsFailure(trace[k]) => k = Len(trace) /\ pc = "aborted"
    /\ pc = "aborted" => IsFailure(trace[Len(trace)])
    /\ run = 1 =>
          /\ {trace[j].a : j \in WritesBefore(Len(trace))} \subseteq DOMAIN fs
          /\ DOMAIN fs \ {trace[j].a : j \in WritesBefore(Len(trace))} \subseteq CutShort
          /\ \A j \in WritesBefore(Len(trace)) : fs[trace[j].a] = Bytes(trace[j].b, run)

C8_Witness ==
    /\ pc = "aborted"
    /\ trace[Len(trace)].op = "fetch"
    /\ WritesBefore(Len(trace)) # {}
    /\ work # <<>>

(***************************************************************************)
(* C9  Volumes, then seasons, are processed in table order; within one     *)
(* volume / season every link is resolved and every resolved URL printed   *)
(* before the first download, and downloads and warnings follow the order  *)
(* in which the links were discovered on the listing page.                 *)
(***************************************************************************)
ListingEvents == SelectSeq(trace, LAMBDA e : e.op = "listing")
DetailEvents == SelectSeq(Batch, LAMBDA e : e.op = "detail" /\ e.b = "ok")
DownloadEvents == SelectSeq(Batch, LAMBDA e : e.op = "download")

C9_EventOrder ==
    /\ \A i, j \in 1..Len(ListingEvents) :
          i < j => TableIndex(ListingEvents[i].a) < TableIndex(ListingEvents[j].a)
    /\ \A i, j \in 1..Len(Batch) :
          i < j =>
             /\ ~(Batch[i].op = "download" /\ Batch[j].op \in {"detail", "url", "header"})
             /\ ~(Batch[i].op \in {"url", "header"} /\ Batch[j].op = "detail")
    /\ \A i, j \in 1..Len(Batch) :
          (Batch[i].op = "detail" /\ Batch[j].op = "download"
              /\ ~\E m \in 1..Len(Batch) : Batch[m].op = "miss" /\ Batch[m].a = Batch[i].a)
             => \E u \in (i + 1)..(j - 1) : Batch[u].op = "url" /\ Batch[u].b = Batch[i].a
    /\ \A k \in 1..Len(DownloadEvents) : DownloadEvents[k].a = DetailEvents[k].a
    /\ \A i, j \in 1..Len(DetailEvents) :
          i < j =>
             LET html == Listing(site, TableOrder[TableIndex(trace[LastListing].a)])
             IN  Find(html, "href=\"" \o DetailEvents[i].a \o "\"", 1)
                    < Find(html, "href=\"" \o DetailEvents[j].a \o "\"", 1)
    /\ \A k \in 1..Len(Batch) :
          Batch[k].op = "warn" =>
             \E j \in 1..(k - 1) :
                /\ Batch[j].op = "download"
                /\ Batch[j].a = Batch[k].b
                /\ \A m \in (j + 1)..(k - 1) : Batch[m].op # "download"

C9_Witness ==
    /\ pc = "done"
    /\ Len(ListingEvents) = Len(TableOrder)
    /\ Len(DownloadEvents) = 2
    /\ \E k \in 1..Len(Batch) : Batch[k].op = "warn"
    /\ \E k \in 1..Len(Batch) : Batch[k].op = "write"

(***************************************************************************)
(* C2  (as stated) Once a fetch for a destination path has succeeded, no   *)
(* later download_file call on that path (in this run or a later one)      *)
(* fetches or writes, and the file keeps the content of that one write.    *)
(***************************************************************************)
C2_FetchedOnce ==
    \A i \in 1..Len(hist) :
        FetchedOk(hist[i]) =>
            /\ Wrote(hist[i])
            /\ hist[i].path \in DOMAIN fs
            /\ fs[hist[i].path] = Bytes(hist[i].url, hist[i].run)
            /\ \A j \in 1..Len(hist) :
                  (j # i /\ hist[j].path = hist[i].path /\ j > i) => hist[j].events = <<>>
            /\ \A j \in 1..(i - 1) : hist[j].path = hist[i].path => ~Wrote(hist[j])

(***************************************************************************)
(* C2  (amended) Once a download_file call has fetched and has created the *)
(* file at its destination path, no later call on that path (in this run   *)
(* or a later one) fetches or writes, no earlier call on it left a file,   *)
(* and the file keeps what that call left: the fetched bytes when its      *)
(* write completed. A call that fetched and whose write completed has      *)
(* created the file; one that fetched and left no file is followed by a    *)
(* fetch in the next call on the path, unless that call raises before it.  *)
(***************************************************************************)
Created(h) == h.left /\ ~h.had

C2_DownloadIdempotent ==
    /\ \A i \in 1..Len(hist) :
          Created(hist[i]) =>
             /\ FetchedOk(hist[i])
             /\ hist[i].path \in DOMAIN fs
             /\ fs[hist[i].path] = IF Wrote(hist[i])
                                   THEN Bytes(hist[i].url, hist[i].run)
                                   ELSE Truncated(hist[i].url, hist[i].run)
             /\ \A j \in (i + 1)..Len(hist) :
                   hist[j].path = hist[i].path => hist[j].events = <<>>
             /\ \A j \in 1..(i - 1) :
                   hist[j].path = hist[i].path => (~Wrote(hist[j]) /\ ~hist[j].left)
    /\ \A i \in 1..Len(hist) :
          /\ Wrote(hist[i]) => (FetchedOk(hist[i]) /\ Created(hist[i]))
          /\ (FetchedOk(hist[i]) /\ ~hist[i].left) =>
                \A j \in (i + 1)..Len(hist) :
                    (/\ hist[j].path = hist[i].path
                     /\ ~Falsy(hist[j].url)
                     /\ \A m \in (i + 1)..(j - 1) : hist[m].path # hist[i].path)
                        => (FetchedOk(hist[j]) \/ FetchFailed(hist[j])
                            \/ hist[j].nodir \/ hist[j].nourl)

\* a fetch that succeeded, no file left, and the next run fetching again
C2_Refetched ==
    \E i, j \in 1..Len(hist) :
        /\ i < j
        /\ hist[i].path = hist[j].path
        /\ FetchedOk(hist[i]) /\ ~hist[i].left
        /\ FetchedOk(hist[j])

C2_Witness ==
    \E i, j, k \in 1..Len(hist) :
        /\ i < j /\ j < k
        /\ hist[i].path = hist[j].path /\ hist[j].path = hist[k].path
        /\ FetchedOk(hist[i]) /\ Created(hist[i])
        /\ hist[j].run = hist[i].run /\ hist[j].url # hist[i].url
        /\ hist[k].run > hist[i].run
        /\ ~Falsy(hist[j].url) /\ ~Falsy(hist[k].url)

(***************************************************************************)
(* C10 (as stated) A file is on disk only if a fetch for its path          *)
(* succeeded; a call whose fetch fails leaves no file, only the parent     *)
(* directory; and every download_file call, of a first run or of a re-run, *)
(* fetches exactly when its URL is present and its destination file is     *)
(* missing.                                                                *)
(***************************************************************************)
Fetched(h) == FetchedOk(h) \/ FetchFailed(h)

C10_FetchesExactlyMissing ==
    /\ \A p \in DOMAIN fs : \E i \in 1..Len(hist) : hist[i].path = p /\ FetchedOk(hist[i])
    /\ \A i \in 1..Len(hist) :
          /\ FetchFailed(hist[i]) => (~hist[i].left /\ ~Wrote(hist[i]))
          /\ Fetched(hist[i]) <=> (~Falsy(hist[i].url) /\ ~hist[i].had)

(***************************************************************************)
(* C10 (amended) A file is on disk only if a fetch for its path succeeded; *)
(* a call whose fetch fails leaves no file, only the parent directory; and *)
(* every download_file call, of a first run or of a re-run, fetches only   *)
(* when its URL is present and its destination file is missing, and then   *)
(* does fetch unless it raises before: creating the directory fails, or    *)
(* the URL has no scheme. The file is present at a call exactly when an    *)
(* earlier call on the path fetched and left it.                           *)
(***************************************************************************)
C10_ResumeFetchesMissing ==
    /\ \A p \in DOMAIN fs : \E i \in 1..Len(hist) : hist[i].path = p /\ FetchedOk(hist[i])
    /\ \A i \in 1..Len(hist) :
          /\ FetchFailed(hist[i]) =>
                (~hist[i].left /\ ~Wrote(hist[i]) /\ MadeDirs(hist[i].name) \subseteq dirs)
          /\ Fetched(hist[i]) => (~Falsy(hist[i].url) /\ ~hist[i].had)
          /\ (~Falsy(hist[i].url) /\ ~hist[i].had) =>
                (Fetched(hist[i]) \/ hist[i].nodir \/ hist[i].nourl)
          /\ hist[i].nourl => (~HasScheme(hist[i].url) /\ ~hist[i].left)
          /\ (~Falsy(hist[i].url) /\ ~hist[i].had /\ ~HasScheme(hist[i].url))
                => ~Fetched(hist[i])
          /\ hist[i].had => hist[i].events = <<>>
    /\ \A i \in 1..Len(hist) :
          hist[i].had <=>
              \E j \in 1..(i - 1) :
                  hist[j].path = hist[i].path /\ FetchedOk(hist[j]) /\ hist[j].left

C10_Witness ==
    /\ run = 2
    /\ pc = "done"
    /\ \E i, j, k \in 1..Len(hist) :
          /\ hist[i].run = 1 /\ FetchFailed(hist[i])
          /\ hist[j].run = 2 /\ hist[j].had /\ ~Falsy(hist[j].url) /\ hist[j].events = <<>>
          /\ hist[k].run = 2 /\ hist[k].path = hist[i].path /\ FetchedOk(hist[k])
(***************************************************************************)
(* C3  The extractors return no link twice, only links that begin with     *)
(* /study/history/{slug}/, pass the shape filter and stand in the body as  *)
(* href="link"; where no match of the pattern lies inside another, the     *)
(* links come in the order of their first occurrence in the body and       *)
(* every occurrence that passes the filter is returned.                    *)
(***************************************************************************)
PassesShape(kind, link) == IF kind = "chapter" THEN IsChapterLink(link) ELSE IsEpisodeLink(link)

MatchPositions == {i \in 1..Len(inp.html) : HrefAt(inp.html, inp.slug, i)}

Captured(i) == SubSeq(inp.html, i + 6, LinkEnd(inp.html, i + 6) - 1)

NestedMatches ==
    \E i, j \in MatchPositions : i < j /\ j <= LinkEnd(inp.html, i + 6)

FirstOccurrence(link) == Find(inp.html, "href=\"" \o link \o "\"", 1)

C3_LinkExtraction ==
    pc = "return" =>
        /\ \A i, j \in 1..Len(outp) : i # j => outp[i] # outp[j]
        /\ \A i \in 1..Len(outp) :
              /\ HasAt(outp[i], 1, "/study/history/" \o inp.slug \o "/")
              /\ PassesShape(inp.kind, outp[i])
              /\ FirstOccurrence(outp[i]) # 0
        /\ ~NestedMatches =>
              /\ \A i, j \in 1..Len(outp) :
                    i < j => FirstOccurrence(outp[i]) < FirstOccurrence(outp[j])
              /\ \A m \in MatchPositions :
                    PassesShape(inp.kind, Captured(m)) =>
                        \E i \in 1..Len(outp) : outp[i] = Captured(m)

C3_Witness ==
    /\ pc = "return"
    /\ inp.kind = "chapter"
    /\ Cardinality(MatchPositions) = 3
    /\ outp = <<"/study/history/saints-v1/02-b?lang=eng", "/study/history/saints-v1/01-a">>

(***************************************************************************)
(* C4  The entry parse_audio_link uses is that of the first of: the key    *)
(* equal to the link without its leading /study, that key without the      *)
(* query string, the first key whose last path segment is the link's; the  *)
(* result is a soft miss exactly when all three fail.                      *)
(***************************************************************************)
StripLeadingStudy(link) ==
    IF HasAt(link, 1, "/study") THEN SubSeq(link, 7, Len(link)) ELSE link

LastSegment(path) == AfterLast(path, "/")

ClaimedEntry(store, link) ==
    LET k1   == StripLeadingStudy(link)
        k2   == BeforeFirst(k1, "?")
        seg  == LastSegment(BeforeFirst(link, "?"))
        hits == {k \in 1..Len(store) : LastSegment(store[k].key) = seg}
        e1   == StoreGet(store, k1)
        e2   == StoreGet(store, k2)
        e3   == IF hits = {} THEN NoEntry
                ELSE store[CHOOSE k \in hits : \A j \in hits : k <= j].entry
    IN  IF ~NotEntry(e1) THEN e1 ELSE IF ~NotEntry(e2) THEN e2 ELSE e3

C4_LookupOrder ==
    pc = "return" =>
        LET e == ClaimedEntry(inp.page.store, inp.link)
        IN  IF NotEntry(e) THEN outp.title = None /\ outp.audio_url = None
            ELSE outp.title = e.title

(***************************************************************************)
(* C5  (as stated) The audio URL is the media URL of the first entry       *)
(* labelled "male"; when no entry is labelled "male", that of the first    *)
(* entry; absent for an empty list.                                        *)
(***************************************************************************)
GivenAudio == inp.page.store[1].entry.audio

Males == {k \in 1..Len(GivenAudio) : GivenAudio[k].variant = "male"}

FirstMale == CHOOSE k \in Males : \A j \in Males : k <= j

C5_MaleElseFirstOnly ==
    pc = "return" =>
        outp.audio_url = IF Males # {} THEN GivenAudio[FirstMale].mediaUrl
                         ELSE IF GivenAudio # <<>> THEN GivenAudio[1].mediaUrl
                         ELSE None

(***************************************************************************)
(* C5  (amended) The audio URL is the media URL of the first entry         *)
(* labelled "male" when that entry has a non-empty media URL; otherwise    *)
(* (no entry labelled "male", or that entry without a media URL) it is the *)
(* media URL of the first list entry; it is absent for an empty list.      *)
(***************************************************************************)
C5_VariantSelection ==
    pc = "return" =>
        /\ outp.audio_url =
              IF Males # {} /\ ~Falsy(GivenAudio[FirstMale].mediaUrl)
              THEN GivenAudio[FirstMale].mediaUrl
              ELSE IF GivenAudio # <<>> THEN GivenAudio[1].mediaUrl
              ELSE None
        /\ GivenAudio = <<[variant |-> "female", mediaUrl |-> "A"],
                          [variant |-> "male", mediaUrl |-> "B"]>> => outp.audio_url = "B"
        /\ GivenAudio = <<[variant |-> "female", mediaUrl |-> "A"]>> => outp.audio_url = "A"

C5_Witness ==
    /\ pc = "return"
    /\ GivenAudio = <<[variant |-> "female", mediaUrl |-> "A"],
                      [variant |-> "male", mediaUrl |-> None]>>
    /\ outp.audio_url = "A"

(***************************************************************************)
(* C6  The file name is "{prefix} {cleaned title}.mp3" with every "/"      *)
(* replaced by "-": prefix the two digits after the first "/" that is      *)
(* followed by two digits and "-" (for a season, the sN-episode-N code),   *)
(* empty when the link has none; cleaned title the title without its       *)
(* leading digits and the whitespace after them.                           *)
(***************************************************************************)
\* number of leading characters of s, from position i on, that are in set
RunLength(s, i, set) ==
    CHOOSE n \in 0..Len(s) :
        /\ i + n - 1 <= Len(s)
        /\ \A k \in i..(i + n - 1) : At(s, k) \in set
        /\ (i + n <= Len(s) => At(s, i + n) \notin set)

ClaimedCleanTitle(title) ==
    LET d == RunLength(title, 1, Digits)
        w == RunLength(title, d + 1, Spaces)
    IN  IF d = 0 THEN title ELSE SubSeq(title, d + w + 1, Len(title))

ClaimedPrefix(kind, link) ==
    LET twoDigits(i) == /\ At(link, i) = "/"
                        /\ RunLength(link, i + 1, Digits) >= 2
                        /\ HasAt(link, i + 3, "-")
        code(i)      == LET n == RunLength(link, i + 2, Digits)
                            m == RunLength(link, i + 2 + n + 9, Digits)
                        IN  IF HasAt(link, i, "/s") /\ n >= 1
                               /\ HasAt(link, i + 2 + n, "-episode-") /\ m >= 1
                            THEN SubSeq(link, i + 1, i + 2 + n + 9 + m - 1)
                            ELSE ""
        starts       == IF kind = "volume"
                        THEN {i \in 1..Len(link) : twoDigits(i)}
                        ELSE {i \in 1..Len(link) : code(i) # ""}
        first        == CHOOSE i \in starts : \A j \in starts : i <= j
    IN  IF starts = {} THEN ""
        ELSE IF kind = "volume" THEN SubSeq(link, first + 1, first + 2)
        ELSE code(first)

C6_FileName ==
    pc = "return" =>
        LET raw == ClaimedPrefix(inp.kind, inp.link) \o " " \o ClaimedCleanTitle(inp.title) \o ".mp3"
        IN  /\ Len(outp) = Len(raw)
            /\ \A i \in 1..Len(raw) :
                  At(outp, i) = IF At(raw, i) = "/" THEN "-" ELSE At(raw, i)
            /\ (inp.kind = "volume"
                  /\ inp.link = "/study/history/saints-v1/03-an-eye-single"
                  /\ inp.title = "3 An Eye Single") => outp = "03 An Eye Single.mp3"

C6_Witness ==
    /\ pc = "return"
    /\ inp.link = "/study/history/saints-v1/03-an-eye-single"
    /\ inp.kind = "volume"
    /\ inp.title = "3 An Eye Single"
    /\ outp = "03 An Eye Single.mp3"
====
